---- MODULE Spec2Model ----
(***************************************************************************)
(* A model of heisnotlegallyresponsible.py: the DataDragonCache class      *)
(* (a dict from option name to a list of display names), its refresh over  *)
(* a thread pool, the Gangplank patch, save/load through a JSON file and   *)
(* the select query.                                                       *)
(***************************************************************************)
EXTENDS Integers, Sequences, FiniteSets, TLC

VARIABLES
    cache,      \* the DataDragonCache dict: option name -> sequence of names
    file,       \* the snapshot file: [exists, text], text a JSON object
    archive,    \* which tarball the docs page links to (index in Archives)
    pc,         \* "idle", or "collect" while refresh runs its as_completed loop
    tasks,      \* the futures of the running refresh, one per archive member
    selection,  \* the set returned by the last select call
    last,       \* the call or step that produced this state
    atStart,    \* the cache when the current (or last) refresh was called
    prevRun,    \* the refresh completed before the current one
    saved,      \* the cache as it was when save last wrote the file
    nRefresh,   \* refresh calls made
    nCalls      \* construct, load, save and select calls made

vars == <<cache, file, archive, pc, tasks, selection, last, atStart, prevRun,
          saved, nRefresh, nCalls>>

\* ------------------------------------------------------------------ bounds
MaxRefresh == 2
MaxCalls == 3

\* --------------------------------------------------------------- constants
options ==
    {"champion", "item", "skin", "ability", "keystone_rune", "nonkeystone_rune",
     "summoner_spell"}

categories == {"champion", "summoner", "item", "runesReforged"}

language == "en_US"

RawFireAtWill ==
    "<rarityLegendary>Fire at Will</rarityLegendary><br><subtitleLeft><silver>500 Silver Serpents</silver></subtitleLeft>"

RawDeathsDaughter ==
    "<rarityLegendary>Death's Daughter</rarityLegendary><br><subtitleLeft><silver>500 Silver Serpents</silver></subtitleLeft>"

RawRaiseMorale ==
    "<rarityLegendary>Raise Morale</rarityLegendary><br><subtitleLeft><silver>500 Silver Serpents</silver></subtitleLeft>"

\* The three (raw, plain) pairs of the patch, in the order refresh applies them.
GangplankFixes ==
    << <<RawFireAtWill, "Fire at Will">>,
       <<RawDeathsDaughter, "Death's Daughter">>,
       <<RawRaiseMorale, "Raise Morale">> >>

\* A record of a document that has no "name" key: reading it raises KeyError.
NoName == "<KeyError: 'name'>"

\* ------------------------------------------------------------ list helpers
Count(s, n) == Cardinality({i \in DOMAIN s : s[i] = n})

Elems(s) == {s[i] : i \in DOMAIN s}

\* list.remove(x): drops the first occurrence of x.
ListRemove(s, x) ==
    LET i == CHOOSE j \in DOMAIN s : s[j] = x /\ \A h \in 1..(j - 1) : s[h] # x
    IN  SubSeq(s, 1, i - 1) \o SubSeq(s, i + 1, Len(s))

RECURSIVE Flatten(_)
Flatten(ss) == IF ss = <<>> THEN <<>> ELSE Head(ss) \o Flatten(Tail(ss))

\* ------------------------------------------------------------ the archives
\* A tarball member: its path, what the substring tests of refresh and _add
\* find in the path, and the document the CDN serves for it.
Entry(n) == [name |-> n, spells |-> <<>>, skins |-> <<>>]

Member(path, isJson, lang, marks, pages, data) ==
    [name |-> path, json |-> isJson, lang |-> lang, marks |-> marks,
     doc |-> [pages |-> pages, data |-> data]]

RunesMember ==
    Member("13.1.1/data/en_US/runesReforged.json", TRUE, "en_US", {"runesReforged"},
           << << <<"Electrocute", "Predator">>, <<"Cheap Shot">>, <<"Electrocute", "Eyeball">> >>,
              << <<"Conqueror">> >> >>,
           <<>>)

SummonerMember ==
    Member("13.1.1/data/en_US/summoner.json", TRUE, "en_US", {"summoner"},
           <<>>, <<Entry("Flash"), Entry("Smite")>>)

AatroxMember ==
    Member("13.1.1/data/en_US/champion/Aatrox.json", TRUE, "en_US",
           {"champion", "champion/"}, <<>>,
           << [name |-> "Aatrox", spells |-> <<"The Darkin Blade", "Smite">>,
               skins |-> <<"default", "Default", "default Aatrox", "Justicar Aatrox">>] >>)

\* A champion document whose second spell record lacks its "name".
AhriMember ==
    Member("13.1.1/data/en_US/champion/Ahri.json", TRUE, "en_US",
           {"champion", "champion/"}, <<>>,
           << [name |-> "Ahri", spells |-> <<"Charm", NoName>>,
               skins |-> <<"default", "Dynasty Ahri">>] >>)

ChampionListMember ==
    Member("13.1.1/data/en_US/champion.json", TRUE, "en_US", {"champion"},
           <<>>, <<Entry("Aatrox")>>)

ItemMember ==
    Member("13.1.1/data/en_US/item.json", TRUE, "en_US", {"item"}, <<>>,
           <<Entry(RawFireAtWill), Entry("<b>Boots</b>"), Entry(RawFireAtWill)>>)

TftItemMember ==
    Member("13.1.1/data/en_US/tft-item.json", TRUE, "en_US", {"item"}, <<>>,
           <<Entry(RawDeathsDaughter), Entry("Death's Daughter"), Entry("<b>Boots</b>")>>)

LegacyItemMember ==
    Member("13.1.1/data/en_US/item.json", TRUE, "en_US", {"item"}, <<>>,
           <<Entry(RawRaiseMorale), Entry("Long Sword")>>)

GermanItemMember ==
    Member("13.1.1/data/de_DE/item.json", TRUE, "de_DE", {"item"}, <<>>,
           <<Entry("Langschwert")>>)

ItemImageMember ==
    Member("13.1.1/img/en_US/item/1001.png", FALSE, "en_US", {"item"}, <<>>, <<>>)

\* A rune document whose second page has no slots: slots[0] raises IndexError.
BrokenRunesMember ==
    Member("12.9.1/data/en_US/runesReforged.json", TRUE, "en_US", {"runesReforged"},
           << << <<"Electrocute">>, <<"Cheap Shot">> >>, <<>> >>, <<>>)

Archives ==
    << <<AatroxMember, AhriMember>>,
       <<ItemMember, GermanItemMember, TftItemMember>>,
       <<RunesMember, ChampionListMember>>,
       <<ItemImageMember, LegacyItemMember, SummonerMember>>,
       <<BrokenRunesMember, ChampionListMember>> >>

Members == Archives[archive]

\* The condition of the dict comprehension that submits the tasks.
Filtered(m) ==
    m.json /\ m.lang = language /\ (m.marks \cap categories) # {}

Submitted == {i \in DOMAIN Members : Filtered(Members[i])}

\* ------------------------------------------------------------------- _add
\* _add as the sequence of appends its loops make, in order: <<key, name>>.
\* A name of NoName stands for the exception raised at that point.
Tag(k, names) == [i \in DOMAIN names |-> <<k, names[i]>>]

\* A bug: only the second slot of a page is read as nonkeystone.
RECURSIVE RuneEmitsSecondSlotOnly(_)
RuneEmitsSecondSlotOnly(pages) ==
    IF pages = <<>> THEN <<>>
    ELSE LET slots == Head(pages)
         IN  (IF slots = <<>>
              THEN << <<"keystone_rune", NoName>> >>
              ELSE Tag("keystone_rune", slots[1])
                   \o Tag("nonkeystone_rune", IF Len(slots) > 1 THEN slots[2] ELSE <<>>))
             \o RuneEmitsSecondSlotOnly(Tail(pages))

RECURSIVE RuneEmits(_)
RuneEmits(pages) ==
    IF pages = <<>> THEN <<>>
    ELSE LET slots == Head(pages)
         IN  (IF slots = <<>>
              THEN << <<"keystone_rune", NoName>> >>
              ELSE Tag("keystone_rune", slots[1])
                   \o Tag("nonkeystone_rune", Flatten(Tail(slots))))
             \o RuneEmits(Tail(pages))

\* A bug: every skin whose name starts with "default" in any case is dropped.
KeepsSkinLoose(e) == e[2] \notin {"default", "Default", "default Aatrox"}

KeepsSkin(e) == e[2] # "default"

ChampionEmits(data) ==
    IF data = <<>> THEN << <<"champion", NoName>> >>
    ELSE LET d == data[1]
         IN  << <<"champion", d.name>> >>
             \o Tag("ability", d.spells)
             \o SelectSeq(Tag("skin", d.skins), KeepsSkin)

DataEmits(k, data) == [i \in DOMAIN data |-> <<k, data[i].name>>]

Emits(m) ==
    IF "runesReforged" \in m.marks THEN RuneEmits(m.doc.pages)
    ELSE IF "summoner" \in m.marks THEN DataEmits("summoner_spell", m.doc.data)
    ELSE IF "champion/" \in m.marks THEN ChampionEmits(m.doc.data)
    ELSE IF "item" \in m.marks THEN DataEmits("item", m.doc.data)
    ELSE <<>>

\* A bug: the champion name is assigned, not appended.
RECURSIVE ApplyOverwrite(_, _)
ApplyOverwrite(c, ev) ==
    IF ev = <<>> THEN [cache |-> c, raised |-> FALSE]
    ELSE IF Head(ev)[2] = NoName THEN [cache |-> c, raised |-> TRUE]
    ELSE ApplyOverwrite([c EXCEPT ![Head(ev)[1]] =
                            IF Head(ev)[1] = "champion" THEN <<Head(ev)[2]>>
                            ELSE Append(@, Head(ev)[2])],
                        Tail(ev))

RECURSIVE Apply(_, _)
Apply(c, ev) ==
    IF ev = <<>> THEN [cache |-> c, raised |-> FALSE]
    ELSE IF Head(ev)[2] = NoName THEN [cache |-> c, raised |-> TRUE]
    ELSE Apply([c EXCEPT ![Head(ev)[1]] = Append(@, Head(ev)[2])], Tail(ev))

Add(c, m) == Apply(c, Emits(m))

\* ------------------------------------------------------- the Gangplank fix
\* A bug: every occurrence of the raw string is removed.
FixOneRemoveAll(items, raw, plain) ==
    IF raw \in Elems(items)
    THEN Append(SelectSeq(items, LAMBDA x : x # raw), plain) ELSE items

FixOne(items, raw, plain) ==
    IF raw \in Elems(items) THEN Append(ListRemove(items, raw), plain) ELSE items

FixGangplank(c) ==
    [c EXCEPT !["item"] =
        FixOne(FixOne(FixOne(@, GangplankFixes[1][1], GangplankFixes[1][2]),
                      GangplankFixes[2][1], GangplankFixes[2][2]),
               GangplankFixes[3][1], GangplankFixes[3][2])]

\* ----------------------------------------------------------------- select
FlagNames ==
    {"champion", "item", "skin", "ability", "keystone_rune_and_summoner_spell",
     "nonkeystone_rune"}

Flags == [FlagNames -> BOOLEAN]

\* The flag combinations the calls of the lifecycle model draw from.
CallFlags ==
    {[n \in FlagNames |-> n = "champion"],
     [n \in FlagNames |-> n \in {"item", "keystone_rune_and_summoner_spell"}]}

\* A bug: the combined flag adds the keystone runes alone.
SelectListKeystoneOnly(c, f) ==
    (IF f["champion"] THEN c["champion"] ELSE <<>>)
    \o (IF f["item"] THEN c["item"] ELSE <<>>)
    \o (IF f["skin"] THEN c["skin"] ELSE <<>>)
    \o (IF f["ability"] THEN c["ability"] ELSE <<>>)
    \o (IF f["keystone_rune_and_summoner_spell"] THEN c["keystone_rune"] ELSE <<>>)
    \o (IF f["nonkeystone_rune"] THEN c["nonkeystone_rune"] ELSE <<>>)

SelectList(c, f) ==
    (IF f["champion"] THEN c["champion"] ELSE <<>>)
    \o (IF f["item"] THEN c["item"] ELSE <<>>)
    \o (IF f["skin"] THEN c["skin"] ELSE <<>>)
    \o (IF f["ability"] THEN c["ability"] ELSE <<>>)
    \o (IF f["keystone_rune_and_summoner_spell"]
        THEN c["keystone_rune"] \o c["summoner_spell"] ELSE <<>>)
    \o (IF f["nonkeystone_rune"] THEN c["nonkeystone_rune"] ELSE <<>>)

select(c, f) == Elems(SelectList(c, f))

select_all(c) == select(c, [n \in FlagNames |-> TRUE])

\* ------------------------------------------------------------ save / load
\* json.dump writes the dict as a JSON object: a collection of name/value
\* pairs. json.load reads the object back into a dict.
Dump(c) == {<<k, c[k]>> : k \in DOMAIN c}

Parse(text) ==
    [k \in {p[1] : p \in text} |-> (CHOOSE p \in text : p[1] = k)[2]]

\* A bug: the dict is replaced by the file's object.
UpdateReplace(c, d) == d

\* A bug: setdefault in place of update, the keys the dict has keep their value.
UpdateKeepExisting(c, d) ==
    [k \in (DOMAIN c) \cup (DOMAIN d) |-> IF k \in DOMAIN c THEN c[k] ELSE d[k]]

\* dict.update: every key of d is set, the other keys of c stay.
Update(c, d) ==
    [k \in (DOMAIN c) \cup (DOMAIN d) |-> IF k \in DOMAIN d THEN d[k] ELSE c[k]]

load(c, f) == Update(c, Parse(f.text))

\* ------------------------------------------------------------------ state
EmptyCache == [k \in options |-> <<>>]

NoFile == [exists |-> FALSE, text |-> {}]

\* What cache.json may hold before the program first runs: nothing, a
\* snapshot with some of the keys and one more, a snapshot of unpatched items.
InitFiles ==
    {NoFile,
     [exists |-> TRUE,
      text |-> {<<"champion", <<"Aatrox">>>>, <<"patch", <<"13.1.1">>>>}],
     [exists |-> TRUE,
      text |-> {<<"item", <<RawFireAtWill, "Fire at Will", RawFireAtWill>>>>}]}

NoTasks == [i \in {} |-> [state |-> "running", res |-> "none"]]

NoRun == [valid |-> FALSE, start |-> EmptyCache, end |-> EmptyCache, res |-> NoTasks]

\* fresh: the call was made on a cache that had just been constructed.
Step(op, i, failed, flags) ==
    [op |-> op, i |-> i, failed |-> failed, flags |-> flags, fresh |-> FALSE]

NoFlags == [n \in FlagNames |-> FALSE]

Init ==
    /\ cache = EmptyCache
    /\ file \in InitFiles
    /\ archive \in DOMAIN Archives
    /\ pc = "idle"
    /\ tasks = NoTasks
    /\ selection = {}
    /\ last = Step("construct", 0, FALSE, NoFlags)
    /\ atStart = EmptyCache
    /\ prevRun = NoRun
    /\ saved = [valid |-> FALSE, map |-> EmptyCache]
    /\ nRefresh = 0
    /\ nCalls = 0

\* ---------------------------------------------------------------- refresh
\* The docs page or the tarball cannot be fetched, or the page has no
\* ddragon link: the exception leaves refresh before any task is submitted.
RefreshFails ==
    /\ pc = "idle"
    /\ nRefresh < MaxRefresh
    /\ nRefresh' = nRefresh + 1
    /\ last' = Step("refresh_error", 0, TRUE, NoFlags)
    /\ selection' = {}
    /\ UNCHANGED <<cache, file, archive, pc, tasks, atStart, prevRun, saved, nCalls>>

\* A bug: refresh empties the sequences before it submits the tasks.
RefreshStartClearing ==
    /\ pc = "idle"
    /\ nRefresh < MaxRefresh
    /\ nRefresh' = nRefresh + 1
    /\ pc' = "collect"
    /\ tasks' = [i \in Submitted |-> [state |-> "running", res |-> "none"]]
    /\ atStart' = cache
    /\ cache' = [k \in DOMAIN cache |-> <<>>]
    /\ prevRun' = IF last.op = "patch"
                  THEN [valid |-> TRUE, start |-> atStart, end |-> cache, res |-> tasks]
                  ELSE NoRun
    /\ last' = Step("submit", 0, FALSE, NoFlags)
    /\ selection' = {}
    /\ UNCHANGED <<file, archive, saved, nCalls>>

\* refresh up to the submission of one _get_json task per filtered member.
RefreshStart ==
    /\ pc = "idle"
    /\ nRefresh < MaxRefresh
    /\ nRefresh' = nRefresh + 1
    /\ pc' = "collect"
    /\ tasks' = [i \in Submitted |-> [state |-> "running", res |-> "none"]]
    /\ atStart' = cache
    /\ prevRun' = IF last.op = "patch"
                  THEN [valid |-> TRUE, start |-> atStart, end |-> cache, res |-> tasks]
                  ELSE NoRun
    /\ last' = Step("submit", 0, FALSE, NoFlags)
    /\ selection' = {}
    /\ UNCHANGED <<cache, file, archive, saved, nCalls>>

\* A worker thread ends _get_json: the request and r.json() gave the
\* document, or one of them raised.
TaskDone(i, res) ==
    /\ pc = "collect"
    /\ i \in DOMAIN tasks
    /\ tasks[i].state = "running"
    /\ tasks' = [tasks EXCEPT ![i] = [state |-> "finished", res |-> res]]
    /\ last' = Step("task_done", i, res = "err", NoFlags)
    /\ UNCHANGED <<cache, file, archive, pc, selection, atStart, prevRun, saved,
                   nRefresh, nCalls>>

\* One turn of the as_completed loop: future.result() and _add under the
\* try, the except printing whatever either raised.
Collected(c, m, res) ==
    IF res = "err" THEN [cache |-> c, raised |-> TRUE] ELSE Add(c, m)

Collect(i) ==
    /\ pc = "collect"
    /\ i \in DOMAIN tasks
    /\ tasks[i].state = "finished"
    /\ LET r == Collected(cache, Members[i], tasks[i].res)
       IN  /\ cache' = r.cache
           /\ last' = Step("collect", i, r.raised, NoFlags)
    /\ tasks' = [tasks EXCEPT ![i].state = "collected"]
    /\ UNCHANGED <<file, archive, pc, selection, atStart, prevRun, saved, nRefresh,
                   nCalls>>

\* A bug: the patch waits for the tasks to finish, not for their collection.
AllFinished(t) == \A i \in DOMAIN t : t[i].state # "running"

\* The as_completed loop and the executor's with block are over.
AllCollected(t) == \A i \in DOMAIN t : t[i].state = "collected"

Patch ==
    /\ pc = "collect"
    /\ AllCollected(tasks)
    /\ cache' = FixGangplank(cache)
    /\ pc' = "idle"
    /\ last' = Step("patch", 0, FALSE, NoFlags)
    /\ UNCHANGED <<file, archive, tasks, selection, atStart, prevRun, saved, nRefresh,
                   nCalls>>

\* ------------------------------------------------------- the other calls
Construct ==
    /\ pc = "idle"
    /\ nCalls < MaxCalls
    /\ nCalls' = nCalls + 1
    /\ cache' = EmptyCache
    /\ last' = Step("construct", 0, FALSE, NoFlags)
    /\ selection' = {}
    /\ UNCHANGED <<file, archive, pc, tasks, atStart, prevRun, saved, nRefresh>>

Save ==
    /\ pc = "idle"
    /\ nCalls < MaxCalls
    /\ nCalls' = nCalls + 1
    /\ file' = [exists |-> TRUE, text |-> Dump(cache)]
    /\ saved' = [valid |-> TRUE, map |-> cache]
    /\ last' = Step("save", 0, FALSE, NoFlags)
    /\ selection' = {}
    /\ UNCHANGED <<cache, archive, pc, tasks, atStart, prevRun, nRefresh>>

Load ==
    /\ pc = "idle"
    /\ nCalls < MaxCalls
    /\ nCalls' = nCalls + 1
    /\ cache' = IF file.exists THEN load(cache, file) ELSE cache
    /\ last' = [Step("load", 0, ~file.exists, NoFlags) EXCEPT !.fresh = (last.op = "construct")]
    /\ selection' = {}
    /\ UNCHANGED <<file, archive, pc, tasks, atStart, prevRun, saved, nRefresh>>

Select(f) ==
    /\ pc = "idle"
    /\ nCalls < MaxCalls
    /\ nCalls' = nCalls + 1
    /\ selection' = select(cache, f)
    /\ last' = Step("select", 0, FALSE, f)
    /\ UNCHANGED <<cache, file, archive, pc, tasks, atStart, prevRun, saved, nRefresh>>

SelectAll ==
    /\ pc = "idle"
    /\ nCalls < MaxCalls
    /\ nCalls' = nCalls + 1
    /\ selection' = select_all(cache)
    /\ last' = Step("select_all", 0, FALSE, NoFlags)
    /\ UNCHANGED <<cache, file, archive, pc, tasks, atStart, prevRun, saved, nRefresh>>

Next ==
    \/ RefreshFails
    \/ RefreshStart
    \/ \E i \in DOMAIN Members, res \in {"ok", "err"} : TaskDone(i, res)
    \/ \E i \in DOMAIN Members : Collect(i)
    \/ Patch
    \/ Construct
    \/ Save
    \/ Load
    \/ \E f \in CallFlags : Select(f)
    \/ SelectAll

Spec == Init /\ [][Next]_vars

\* --------------------------------------------- select as a pure function
\* The caches select is applied to: every option holds nothing, or its own
\* name between two copies of a name all options share.
SelectCaches ==
    {[k \in options |-> IF k \in full THEN <<"Smite", k, "Smite">> ELSE <<>>] :
        full \in SUBSET options}

InitSelect ==
    /\ cache \in SelectCaches
    /\ file = NoFile
    /\ archive = 1
    /\ pc = "idle"
    /\ tasks = NoTasks
    /\ selection = {}
    /\ last = Step("load", 0, FALSE, NoFlags)
    /\ atStart = EmptyCache
    /\ prevRun = NoRun
    /\ saved = [valid |-> FALSE, map |-> EmptyCache]
    /\ nRefresh = 0
    /\ nCalls = 0

NextSelect ==
    \/ \E f \in Flags : Select(f)
    \/ SelectAll

SpecSelect == InitSelect /\ [][NextSelect]_vars

\* ------------------------------------------------------------- properties
NamesIn(c) == UNION {Elems(c[k]) : k \in DOMAIN c}

SameBags(a, b) ==
    /\ DOMAIN a = DOMAIN b
    /\ \A k \in DOMAIN a :
          \A n \in Elems(a[k]) \cup Elems(b[k]) : Count(a[k], n) = Count(b[k], n)

\* The flag that gates option k.
FlagOf(k) ==
    IF k \in {"keystone_rune", "summoner_spell"}
    THEN "keystone_rune_and_summoner_spell" ELSE k

RawNames == {GangplankFixes[j][1] : j \in DOMAIN GangplankFixes}

PlainNames == {GangplankFixes[j][2] : j \in DOMAIN GangplankFixes}

\* The refresh's tasks handled one after the other in archive order.
RECURSIVE InOrder(_, _, _)
InOrder(c, t, i) ==
    IF i > Len(Members) THEN c
    ELSE InOrder(IF i \in DOMAIN t THEN Collected(c, Members[i], t[i].res).cache ELSE c,
                 t, i + 1)

\* The same, leaving out every entry whose handling fails.
EntryFails(t, i) == t[i].res = "err" \/ Add(EmptyCache, Members[i]).raised

RECURSIVE InOrderOk(_, _, _)
InOrderOk(c, t, i) ==
    IF i > Len(Members) THEN c
    ELSE InOrderOk(IF i \in DOMAIN t /\ ~EntryFails(t, i) THEN Add(c, Members[i]).cache ELSE c,
                   t, i + 1)

CollectStep(i) == last'.op = "collect" /\ last'.i = i /\ tasks[i].state = "finished"

PatchStep == pc = "collect" /\ pc' = "idle"

\* C1: select returns exactly the names that occur in a sequence whose flag is
\* true (keystone_rune_and_summoner_spell gating keystone_rune and
\* summoner_spell), and select_all the union of all seven sequences.
C1_SelectGatesByFlag ==
    /\ last.op = "select" =>
          selection = {n \in NamesIn(cache) :
                          \E k \in options : last.flags[FlagOf(k)] /\ n \in Elems(cache[k])}
    /\ last.op = "select_all" =>
          selection = UNION {Elems(cache[k]) : k \in options}

C1_Witness ==
    /\ last.op = "select"
    /\ last.flags["keystone_rune_and_summoner_spell"]
    /\ ~last.flags["item"]
    /\ "summoner_spell" \in selection
    /\ "keystone_rune" \in selection
    /\ "Smite" \in Elems(cache["item"])
    /\ "item" \notin selection
    /\ "Smite" \in selection

\* C2: every option key is in the cache in every reachable state, and each
\* holds an empty sequence right after construction.
C2_OptionKeysAlwaysPresent ==
    /\ options \subseteq DOMAIN cache
    /\ last.op = "construct" => \A k \in options : cache[k] = <<>>

C2_Witness ==
    /\ last.op = "load"
    /\ ~last.failed
    /\ nRefresh > 0
    /\ \E i \in DOMAIN tasks : tasks[i].res = "err"
    /\ "patch" \in DOMAIN cache
    /\ cache["skin"] = <<>>

\* C3: when the handling of an entry fails, the refresh goes on, no name of
\* that entry is added, and the others are added as if it were not there.
C3_FailedEntryAddsNothing ==
    [][/\ \A i \in DOMAIN tasks :
             (CollectStep(i) /\ last'.failed) => (cache' = cache /\ pc' = "collect")
       /\ PatchStep => SameBags(cache, InOrderOk(atStart, tasks, 1))]_vars

\* C4 as claimed: a raw string in the item sequence before the patch is gone
\* after it and its plain name occurs exactly once; other names are untouched.
C4_RawGonePlainOnce ==
    [][PatchStep =>
          /\ \A j \in DOMAIN GangplankFixes :
                GangplankFixes[j][1] \in Elems(cache["item"]) =>
                   /\ GangplankFixes[j][1] \notin Elems(cache'["item"])
                   /\ Count(cache'["item"], GangplankFixes[j][2]) = 1
          /\ \A n \in NamesIn(cache) \ (RawNames \cup PlainNames) :
                Count(cache'["item"], n) = Count(cache["item"], n)]_vars

\* C4 amended: for each raw string in the item sequence before the patch, the
\* patch removes one occurrence of it and appends its plain name once, so a raw
\* string that occurred once with its plain name absent is gone and the plain
\* name occurs exactly once; every other name and every other key is untouched.
C4_PatchRemovesOneAppendsOne ==
    [][PatchStep =>
          /\ \A j \in DOMAIN GangplankFixes :
                LET raw == GangplankFixes[j][1]
                    plain == GangplankFixes[j][2]
                    d == IF raw \in Elems(cache["item"]) THEN 1 ELSE 0
                IN  /\ Count(cache'["item"], raw) = Count(cache["item"], raw) - d
                    /\ Count(cache'["item"], plain) = Count(cache["item"], plain) + d
                    /\ (Count(cache["item"], raw) = 1 /\ Count(cache["item"], plain) = 0)
                          => (raw \notin Elems(cache'["item"])
                              /\ Count(cache'["item"], plain) = 1)
          /\ \A n \in (NamesIn(cache) \cup NamesIn(cache')) \ (RawNames \cup PlainNames) :
                Count(cache'["item"], n) = Count(cache["item"], n)
          /\ \A k \in DOMAIN cache \ {"item"} : cache'[k] = cache[k]
          /\ DOMAIN cache' = DOMAIN cache]_vars

C4_Witness ==
    /\ last.op = "patch"
    /\ RawFireAtWill \in Elems(cache["item"])
    /\ Count(cache["item"], "Fire at Will") = 1
    /\ Count(cache["item"], "Death's Daughter") = 2
    /\ "<b>Boots</b>" \in Elems(cache["item"])

\* C5: a load of the file save wrote gives the mapping the cache had when it
\* was saved (same keys, same multiset of names per key), whether the cache is
\* the saved one or a new one; save leaves the cache as it was.
C5_SaveLoadRoundTrip ==
    /\ (last.op = "save") =>
          /\ cache = saved.map
          /\ file.exists
          /\ SameBags(Parse(file.text), cache)
    /\ (last.op = "load" /\ ~last.failed /\ saved.valid) => SameBags(cache, saved.map)

C5_Witness ==
    /\ last.op = "load"
    /\ ~last.failed
    /\ saved.valid
    /\ last.fresh
    /\ Len(saved.map["item"]) > 2
    /\ cache = saved.map

\* C6: the patch runs, and refresh returns, only when every submitted task has
\* finished and its result has been collected.
C6_PatchAfterAllCollected ==
    last.op = "patch" =>
        /\ DOMAIN tasks = Submitted
        /\ \A i \in Submitted : tasks[i].state = "collected" /\ tasks[i].res \in {"ok", "err"}

C6_Witness ==
    /\ last.op = "patch"
    /\ \E i, j \in DOMAIN tasks : tasks[i].res = "ok" /\ tasks[j].res = "err"

\* C7: whatever the order in which the tasks complete, the refresh ends with
\* the multisets that handling them in archive order gives, hence with the same
\* result of every select call.
C7_OrderOfCompletionIrrelevant ==
    last.op = "patch" =>
        LET expected == FixGangplank(InOrder(atStart, tasks, 1))
        IN  /\ SameBags(cache, expected)
            /\ \A f \in Flags : select(cache, f) = select(expected, f)

C7_Witness ==
    /\ last.op = "patch"
    /\ \A i \in DOMAIN tasks : tasks[i].res = "ok"
    /\ cache # FixGangplank(InOrder(atStart, tasks, 1))
    /\ cache["champion"] = <<"Ahri", "Aatrox">>

\* C8: for a rune document whose pages all have a slot, _add appends every
\* rune name of slot 0 to keystone_rune and every rune name of the later slots
\* to nonkeystone_rune, once per occurrence, and touches no other key.
SlotZeroOcc(pages, n) ==
    Cardinality({pr \in UNION {{<<p, r>> : r \in DOMAIN pages[p][1]} : p \in DOMAIN pages} :
                    pages[pr[1]][1][pr[2]] = n})

LaterSlotOcc(pages, n) ==
    Cardinality({psr \in UNION {UNION {{<<p, sl, r>> : r \in DOMAIN pages[p][sl]} :
                                         sl \in 2..Len(pages[p])} : p \in DOMAIN pages} :
                    pages[psr[1]][psr[2]][psr[3]] = n})

RuneNames(pages) ==
    UNION {UNION {Elems(pages[p][sl]) : sl \in DOMAIN pages[p]} : p \in DOMAIN pages}

C8_RuneSlotsClassified ==
    [][\A i \in DOMAIN tasks :
          LET pages == Members[i].doc.pages
          IN  (/\ CollectStep(i)
               /\ tasks[i].res = "ok"
               /\ "runesReforged" \in Members[i].marks
               /\ \A p \in DOMAIN pages : Len(pages[p]) >= 1
               /\ NoName \notin RuneNames(pages))
              => /\ \A n \in RuneNames(pages) \cup NamesIn(cache) \cup NamesIn(cache') :
                       /\ Count(cache'["keystone_rune"], n)
                            = Count(cache["keystone_rune"], n) + SlotZeroOcc(pages, n)
                       /\ Count(cache'["nonkeystone_rune"], n)
                            = Count(cache["nonkeystone_rune"], n) + LaterSlotOcc(pages, n)
                 /\ \A k \in DOMAIN cache \ {"keystone_rune", "nonkeystone_rune"} :
                       cache'[k] = cache[k]
                 /\ ~last'.failed]_vars

C8_Witness ==
    /\ last.op = "collect"
    /\ ~last.failed
    /\ Members[last.i] = RunesMember
    /\ Count(cache["keystone_rune"], "Electrocute") = 1
    /\ Count(cache["nonkeystone_rune"], "Electrocute") = 1
    /\ Count(cache["nonkeystone_rune"], "Eyeball") = 1
    /\ Count(cache["keystone_rune"], "Conqueror") = 1

\* C9: for a champion document, _add appends the champion's name once to
\* champion, every ability name to ability and every skin name other than
\* exactly "default" to skin, and touches no other key.
C9_ChampionDocument ==
    [][\A i \in DOMAIN tasks :
          LET data == Members[i].doc.data
              d == data[1]
          IN  (/\ CollectStep(i)
               /\ tasks[i].res = "ok"
               /\ "champion/" \in Members[i].marks
               /\ Members[i].marks \cap {"runesReforged", "summoner"} = {}
               /\ data # <<>>
               /\ NoName \notin {d.name} \cup Elems(d.spells) \cup Elems(d.skins))
              => /\ \A n \in {d.name} \cup Elems(d.spells) \cup Elems(d.skins)
                               \cup NamesIn(cache) \cup NamesIn(cache') :
                       /\ Count(cache'["champion"], n)
                            = Count(cache["champion"], n) + (IF n = d.name THEN 1 ELSE 0)
                       /\ Count(cache'["ability"], n)
                            = Count(cache["ability"], n) + Count(d.spells, n)
                       /\ Count(cache'["skin"], n)
                            = Count(cache["skin"], n)
                              + (IF n = "default" THEN 0 ELSE Count(d.skins, n))
                 /\ \A k \in DOMAIN cache \ {"champion", "ability", "skin"} :
                       cache'[k] = cache[k]]_vars

C9_Witness ==
    /\ last.op = "collect"
    /\ ~last.failed
    /\ Members[last.i] = AatroxMember
    /\ "Aatrox" \in Elems(cache["champion"])
    /\ {"Default", "default Aatrox", "Justicar Aatrox"} \subseteq Elems(cache["skin"])
    /\ "default" \notin Elems(cache["skin"])
    /\ "Smite" \in Elems(cache["ability"])

\* Every entry of the running refresh ended as it did in the one before.
SameOutcomes == \A i \in DOMAIN tasks : tasks[i].res = prevRun.res[i].res

\* What a refresh that began with cache a and ended with cache b added.
Added(a, b, k, n) == Count(b[k], n) - Count(a[k], n)

RefreshKeeps ==
    (pc = "collect" \/ last.op = "patch") =>
        /\ DOMAIN cache = DOMAIN atStart
        /\ \A k \in DOMAIN atStart : \A n \in Elems(atStart[k]) :
              (k = "item" /\ n \in RawNames) \/ Count(cache[k], n) >= Count(atStart[k], n)

SecondRefreshRepeatsFirst ==
    /\ \A k \in options :
          \A n \in Elems(cache[k]) \cup Elems(prevRun.end[k]) \cup Elems(prevRun.start[k]) :
             /\ Added(prevRun.end, cache, k, n) = Added(prevRun.start, prevRun.end, k, n)
             /\ prevRun.start = EmptyCache => Count(cache[k], n) = 2 * Count(prevRun.end[k], n)
    /\ \A f \in Flags : select(cache, f) = select(prevRun.end, f)

\* C10 as claimed: refresh keeps every name occurrence the cache held when it
\* was called, but for the raw item strings the patch removes; the second of
\* two successive refreshes over the same archive adds what the first added,
\* which leaves twice the occurrences, and select returns the same set after it.
C10_TwoRefreshesDouble ==
    /\ RefreshKeeps
    /\ (last.op = "patch" /\ prevRun.valid) => SecondRefreshRepeatsFirst

\* C10 amended: the same, for two successive refreshes in which every entry
\* has the same outcome and the first of which is called on a cache whose item
\* sequence holds none of the three raw strings.
C10_RefreshOnlyAdds ==
    /\ RefreshKeeps
    /\ (/\ last.op = "patch"
        /\ prevRun.valid
        /\ SameOutcomes
        /\ Elems(prevRun.start["item"]) \cap RawNames = {}) => SecondRefreshRepeatsFirst

C10_Witness ==
    /\ last.op = "patch"
    /\ prevRun.valid
    /\ prevRun.start = EmptyCache
    /\ SameOutcomes
    /\ \A i \in DOMAIN tasks : tasks[i].res = "ok"
    /\ Count(cache["item"], "Fire at Will") = 2
    /\ Count(cache["item"], RawFireAtWill) = 2
    /\ Count(cache["item"], "<b>Boots</b>") = 4
====
